---- MODULE Spec2Model ----
(***************************************************************************)
(* SwedishTranslator: the /api/translate pipeline of server/routes.ts and  *)
(* the in-memory storage of server/storage.ts.                             *)
(*                                                                         *)
(* The repository holds several revisions of the /api/translate handler.   *)
(* The model keeps five of them, told apart by config.version:             *)
(*   "pattern"   routes.ts 166-542  count-uniform selection, pattern       *)
(*               substitution, link rewriting, vocabulary list             *)
(*   "weighted"  routes.ts 1-164    length-weighted selection, built-in    *)
(*               word table                                                *)
(*   "early"     unnamed/part_002 1-75  count-uniform selection, whole     *)
(*               segment mock translation                                  *)
(*   "italic"    unnamed/part_002 388-492  count-uniform selection, whole  *)
(*               segment mock translation wrapped in an <i> element        *)
(*   "dictionary" unnamed/part_002 76-387  the handler of "pattern" with a *)
(*               translateText that looks words up in a dictionary file    *)
(* The /api/preferences routes and the Home component of the client are    *)
(* modelled next to it.                                                    *)
(* A handler runs on the single JavaScript thread: the code between two    *)
(* awaits is one atomic step, and requests interleave at the awaits.       *)
(***************************************************************************)
EXTENDS Integers, Sequences, FiniteSets, TLC

\* ---------------------------------------------------------------- bounds
\* the most pairs of a list uniqueWordPairs is applied to on its own
MaxPairs == 3
\* the most words of a text translateText is applied to on its own
MaxTextLen == 3
\* the longest word transform is applied to on its own
MaxWordLen == 3

\* concurrent requests
NumRequests == 2
\* the word-ending indices Math.random may pick: 0..MaxEnding-1 of the list
MaxEnding == 1

Requests == 1..NumRequests

\* ------------------------------------------- IEEE-754 binary64 arithmetic

MantissaBits == 53
LimbBits == 15

RECURSIVE Pow2(_)
Pow2(k) == IF k = 0 THEN 1 ELSE 2 * Pow2(k - 1)

LimbBase == Pow2(LimbBits)

\* Naturals beyond 32 bits: limbs in base 2^15, most significant first.
RECURSIVE MulSmall(_, _, _)
MulSmall(limbs, n, carry) ==
    IF limbs = <<>>
    THEN IF carry = 0 THEN <<>> ELSE <<carry>>
    ELSE LET k == Len(limbs)
             t == n * limbs[k] + carry
         IN MulSmall(SubSeq(limbs, 1, k - 1), n, t \div LimbBase) \o <<t % LimbBase>>

RECURSIVE DivSmall(_, _, _)
DivSmall(limbs, d, rem) ==
    IF limbs = <<>> THEN [q |-> <<>>, rem |-> rem]
    ELSE LET t    == rem * LimbBase + Head(limbs)
             rest == DivSmall(Tail(limbs), d, t % d)
         IN [q |-> <<t \div d>> \o rest.q, rem |-> rest.rem]

RECURSIVE AddOne(_)
AddOne(limbs) ==
    IF limbs = <<>> THEN <<1>>
    ELSE LET k == Len(limbs)
         IN IF limbs[k] + 1 < LimbBase
            THEN SubSeq(limbs, 1, k - 1) \o <<limbs[k] + 1>>
            ELSE AddOne(SubSeq(limbs, 1, k - 1)) \o <<0>>

RECURSIVE Normalize(_)
Normalize(limbs) ==
    IF limbs # <<>> /\ Head(limbs) = 0 THEN Normalize(Tail(limbs)) ELSE limbs

BitLengthOfLimb(x) ==
    CHOOSE b \in 0..LimbBits : Pow2(b) > x /\ (b = 0 \/ Pow2(b - 1) <= x)

BitLength(limbs) ==
    LET n == Normalize(limbs)
    IN IF n = <<>> THEN 0 ELSE BitLengthOfLimb(Head(n)) + LimbBits * (Len(n) - 1)

PowerOfTwo(s) == <<Pow2(s % LimbBits)>> \o [i \in 1..(s \div LimbBits) |-> 0]

\* floor(x / 2^s) and x mod 2^s, for s < LimbBits
ShiftRight(limbs, s) == Normalize(DivSmall(limbs, Pow2(s), 0).q)
LowBits(limbs, s) == DivSmall(limbs, Pow2(s), 0).rem

IsOdd(limbs) == limbs # <<>> /\ limbs[Len(limbs)] % 2 = 1

\* the value of at most two limbs
LimbsToInt(limbs) ==
    IF limbs = <<>> THEN 0
    ELSE IF Len(limbs) = 1 THEN limbs[1]
    ELSE limbs[1] * LimbBase + limbs[2]

\* The double nearest to p / d (0 < p < d <= 100), round to nearest, ties to
\* even: mantissa m of 53 bits, value m * 2^(-scale).
DoubleQuotient(p, d) ==
    LET z     == CHOOSE k \in 0..7 : p * Pow2(k + 1) >= d /\ (k = 0 \/ p * Pow2(k) < d)
        scale == z + MantissaBits
        num   == MulSmall(PowerOfTwo(scale), p, 0)
        dv    == DivSmall(num, d, 0)
        q     == Normalize(dv.q)
        up    == 2 * dv.rem > d \/ (2 * dv.rem = d /\ IsOdd(q))
    IN [m |-> IF up THEN AddOne(q) ELSE q, scale |-> scale]

\* Math.floor(n * (p / 100)) as JavaScript computes it: p / 100 rounded to a
\* double, the product rounded to a double, then the floor.
FloorOfProductAtLeastOne(n, p) ==
    IF n = 0 THEN 0 ELSE IF (n * p) \div 100 = 0 THEN 1 ELSE (n * p) \div 100

FloorOfProductAndOne(n, p) == (n * p) \div 100 + 1

FloorOfProductExclusive(n, p) == IF n = 0 THEN 0 ELSE ((n - 1) * p) \div 100

FloorOfProduct(n, p) ==
    IF n = 0 \/ p = 0 THEN 0
    ELSE IF p = 100 THEN n
    ELSE LET q     == DoubleQuotient(p, 100)
             prod  == MulSmall(q.m, n, 0)
             drop  == IF BitLength(prod) > MantissaBits
                      THEN BitLength(prod) - MantissaBits ELSE 0
             low   == LowBits(prod, drop)
             kept  == ShiftRight(prod, drop)
             half  == IF drop = 0 THEN 0 ELSE Pow2(drop - 1)
             up    == drop > 0 /\ (low > half \/ (low = half /\ IsOdd(kept)))
             k     == IF up THEN AddOne(kept) ELSE kept
             t     == q.scale - drop
             whole == SubSeq(k, 1, Len(k) - (t \div LimbBits))
         IN LimbsToInt(whole) \div Pow2(t % LimbBits)

\* ------------------------------------------------------------------ text
\* A word is a sequence of characters, a text the sequence of the words of a
\* trimmed text node (one space between two words).

LowerLetters == <<"a", "b", "c", "d", "e", "f", "g", "h", "i", "j", "k", "l", "m",
                  "n", "o", "p", "q", "r", "s", "t", "u", "v", "w", "x", "y", "z">>
UpperLetters == <<"A", "B", "C", "D", "E", "F", "G", "H", "I", "J", "K", "L", "M",
                  "N", "O", "P", "Q", "R", "S", "T", "U", "V", "W", "X", "Y", "Z">>

ToLowerChar(c) ==
    IF \E i \in 1..26 : UpperLetters[i] = c
    THEN LowerLetters[CHOOSE i \in 1..26 : UpperLetters[i] = c] ELSE c

ToUpperChar(c) ==
    IF \E i \in 1..26 : LowerLetters[i] = c
    THEN UpperLetters[CHOOSE i \in 1..26 : LowerLetters[i] = c] ELSE c

ToLowerCase(word) == [i \in 1..Len(word) |-> ToLowerChar(word[i])]

RECURSIVE SumLen(_)
SumLen(words) == IF words = <<>> THEN 0 ELSE Len(Head(words)) + SumLen(Tail(words))

\* text.trim().length
TextLength(text) == IF text = <<>> THEN 0 ELSE SumLen(text) + Len(text) - 1

IsPrefix(p, s) == Len(p) <= Len(s) /\ SubSeq(s, 1, Len(p)) = p

\* s.replace(new RegExp(from, 'g'), to) for a literal, non-empty from
RECURSIVE ReplaceAll(_, _, _)
ReplaceAll(s, from, to) ==
    IF s = <<>> THEN <<>>
    ELSE IF IsPrefix(from, s)
         THEN to \o ReplaceAll(SubSeq(s, Len(from) + 1, Len(s)), from, to)
         ELSE <<Head(s)>> \o ReplaceAll(Tail(s), from, to)

\* ------------------------------------------------- transformation engine

\* languagePatterns (routes.ts 174-255): the languages the model's requests name
SwedishPatterns ==
    << [from |-> <<"t", "h">>, to |-> <<"t">>],
       [from |-> <<"c", "h">>, to |-> <<"k">>],
       [from |-> <<"s", "h">>, to |-> <<"s", "j">>],
       [from |-> <<"w">>,      to |-> <<"v">>],
       [from |-> <<"o", "o">>, to |-> <<"å">>],
       [from |-> <<"e", "e">>, to |-> <<"i">>],
       [from |-> <<"c", "k">>, to |-> <<"k">>] >>

SwedishEndings == << <<"e", "n">>, <<"e", "t">>, <<"a", "r">>, <<"o", "r">>, <<"e", "r">> >>

GermanPatterns ==
    << [from |-> <<"t", "h">>, to |-> <<"t">>],
       [from |-> <<"s", "h">>, to |-> <<"s", "c", "h">>],
       [from |-> <<"w">>,      to |-> <<"v">>],
       [from |-> <<"o", "o">>, to |-> <<"u">>],
       [from |-> <<"e", "e">>, to |-> <<"i", "e">>] >>

GermanEndings == << <<"e", "n">>, <<"e", "r">>, <<"e", "s">>, <<"e">>, <<"u", "n", "g">> >>

\* languagePatterns[language] || languagePatterns.swedish
langConfig(language) ==
    IF language = "german"
    THEN [patterns |-> GermanPatterns, endings |-> GermanEndings]
    ELSE [patterns |-> SwedishPatterns, endings |-> SwedishEndings]

RECURSIVE ApplyPatternsReversed(_, _)
ApplyPatternsReversed(word, patterns) ==
    IF patterns = <<>> THEN word
    ELSE LET last == patterns[Len(patterns)]
         IN ApplyPatternsReversed(ReplaceAll(word, last.from, last.to),
                                  SubSeq(patterns, 1, Len(patterns) - 1))

\* patterns.forEach: each rule rewrites the output of the rule before it
RECURSIVE ApplyPatterns(_, _)
ApplyPatterns(word, patterns) ==
    IF patterns = <<>> THEN word
    ELSE ApplyPatterns(ReplaceAll(word, Head(patterns).from, Head(patterns).to),
                       Tail(patterns))

\* transform(word); ending = 0: the draw Math.random() < 0.3 failed,
\* ending = k > 0: it passed and endings[k - 1] was picked
transform(word, language, ending) ==
    LET cfg     == langConfig(language)
        subst   == ApplyPatterns(ToLowerCase(word), cfg.patterns)
        suffixd == IF ending = 0 THEN subst ELSE subst \o cfg.endings[ending]
    IN IF word[1] = ToUpperChar(word[1]) /\ suffixd # <<>>
       THEN <<ToUpperChar(suffixd[1])>> \o Tail(suffixd)
       ELSE suffixd

\* One token of a text node's content: a plain word, or a substitution
\* <span class="swedish-text" title="Original: {title}">{word}</span>.
Plain(w) == [span |-> FALSE, title |-> <<>>, word |-> w]
Span(original, translated) == [span |-> TRUE, title |-> original, word |-> translated]

PlainTokens(text) == [i \in 1..Len(text) |-> Plain(text[i])]

\* What Math.random decides for one word: include (the draw < 0.5) and ending.
WordDraws == {[include |-> inc, ending |-> e] : inc \in BOOLEAN, e \in 0..MaxEnding}
NoDraw == [include |-> FALSE, ending |-> 0]

IncludedAnyLength(word, draw) == draw.include

\* Math.random() < 0.5 && word.length > 2
Included(word, draw) == draw.include /\ Len(word) > 2

\* translateText of routes.ts 257-300 on the draws of its words
translateTextPattern(text, language, draws) ==
    LET tok(i)  == IF Included(text[i], draws[i])
                   THEN Span(text[i], transform(text[i], language, draws[i].ending))
                   ELSE Plain(text[i])
        tokens  == [i \in 1..Len(text) |-> tok(i)]
        spans   == SelectSeq(tokens, LAMBDA t : t.span)
    IN [translatedText |-> tokens,
        wordPairs |-> [i \in 1..Len(spans) |->
                          [original |-> spans[i].title, translated |-> spans[i].word]]]

\* the word table of routes.ts 11-27, as far as the model's pages use it
MockTranslations ==
    << [en |-> <<"t", "h", "e">>, sv |-> <<"d", "e", "n">>],
       [en |-> <<"p", "a", "g", "e">>, sv |-> <<"s", "i", "d", "a">>],
       [en |-> <<"t", "e", "s", "t">>, sv |-> <<"t", "e", "s", "t">>],
       [en |-> <<"i", "s">>, sv |-> <<"ä", "r">>] >>

InTable(w) == \E i \in 1..Len(MockTranslations) : MockTranslations[i].en = w
Lookup(w) == MockTranslations[CHOOSE i \in 1..Len(MockTranslations) :
                                  MockTranslations[i].en = w].sv

\* translateText of routes.ts 8-38: no draw, no word pairs
translateTextTable(text) ==
    [translatedText |->
        [i \in 1..Len(text) |->
            IF InTable(ToLowerCase(text[i]))
            THEN Span(text[i], Lookup(ToLowerCase(text[i])))
            ELSE Plain(text[i])],
     wordPairs |-> <<>>]

PaSvenska == <<"(", "p", "å", " ", "s", "v", "e", "n", "s", "k", "a", ")">>

\* translateText of unnamed/part_002 8-11: `${text} (på svenska)`
translateTextMock(text) ==
    [translatedText |-> PlainTokens(text) \o <<Plain(PaSvenska)>>, wordPairs |-> <<>>]

\* text as one string: its words joined by single spaces
RECURSIVE Join(_)
Join(text) ==
    IF text = <<>> THEN <<>>
    ELSE IF Len(text) = 1 THEN Head(text)
    ELSE Head(text) \o <<" ">> \o Join(Tail(text))

\* the value an HTML parser reads for title="{chars}": it ends at the first
\* double quote of chars
RECURSIVE AttributeValue(_)
AttributeValue(chars) ==
    IF chars = <<>> \/ Head(chars) = "\"" THEN <<>>
    ELSE <<Head(chars)>> \o AttributeValue(Tail(chars))

\* translateText of unnamed/part_002 395-399:
\* `<i class="swedish-text" title="Original: ${text}">${text} (på svenska)</i>`
translateTextItalic(text) ==
    [translatedText |->
        <<Span(AttributeValue(Join(text)), Join(text) \o <<" ">> \o PaSvenska)>>,
     wordPairs |-> <<>>]

\* --------------------------------------------------------------- storage
\* MemStorage (storage.ts 10-51) as one record: preferences, translations
\* (the Map from url to its records) and currentId.

Urls == {"https://example.com", "https://www.w3.org/"}

NewStorage ==
    [preferences |-> [id |-> 1, translationPercentage |-> 30, lastUrl |-> "null"],
     translations |-> [u \in Urls |-> <<>>],
     currentId |-> 1]

\* this.translations.get(url) || []
getTranslations(st, url) == st.translations[url]

\* return this.preferences
getPreferences(st) == st.preferences

updatePreferencesReplacing(st, prefs) == [st EXCEPT !.preferences = prefs]

\* this.preferences = { ...this.preferences, ...prefs }
updatePreferences(st, prefs) ==
    [st EXCEPT !.preferences =
        [f \in DOMAIN st.preferences \cup DOMAIN prefs |->
            IF f \in DOMAIN prefs THEN prefs[f] ELSE st.preferences[f]]]

saveTranslationIdPerUrl(st, translation) ==
    [st EXCEPT !.currentId = @ + 1,
               !.translations[translation.url] =
                   Append(@, [id |-> Len(@) + 1,
                              originalText |-> translation.originalText,
                              translatedText |-> translation.translatedText,
                              url |-> translation.url])]

saveTranslationPrepending(st, translation) ==
    [st EXCEPT !.currentId = @ + 1,
               !.translations[translation.url] =
                   <<[id |-> st.currentId,
                      originalText |-> translation.originalText,
                      translatedText |-> translation.translatedText,
                      url |-> translation.url]>> \o @]

saveTranslationLost(st, translation) ==
    [st EXCEPT !.currentId = @ + 1,
               !.translations[translation.url] =
                   <<[id |-> st.currentId,
                      originalText |-> translation.originalText,
                      translatedText |-> translation.translatedText,
                      url |-> translation.url]>>]

\* saveTranslation has no await in its body: it runs to its end in one step
saveTranslation(st, translation) ==
    [st EXCEPT !.currentId = @ + 1,
               !.translations[translation.url] =
                   Append(@, [id |-> st.currentId,
                              originalText |-> translation.originalText,
                              translatedText |-> translation.translatedText,
                              url |-> translation.url])]

\* ------------------------------------------------------- request bodies

Body(url, pctType, pct, languageType) ==
    [url |-> url, pctType |-> pctType, translationPercentage |-> pct,
     languageType |-> languageType, language |-> "swedish"]

ValidBodies == {Body(u, "number", p, "string") : u \in Urls, p \in {0, 50, 100}}

InvalidBodies ==
    { Body("notaurl", "number", 50, "string"),
      Body("https://example.com", "number", 101, "string"),
      Body("https://example.com", "number", -1, "string"),
      Body("https://example.com", "undefined", 0, "string"),
      Body("https://example.com", "number", 50, "undefined") }

\* webpageSchema.safeParse(req.body).success
safeParseLax(body) == body.pctType = "number" /\ body.languageType = "string"

safeParse(body) ==
    /\ body.url \in Urls
    /\ body.pctType = "number"
    /\ body.translationPercentage >= 0
    /\ body.translationPercentage <= 100
    /\ body.languageType = "string"

\* ---------------------------------------------------------------- pages
\* What upstream serves: the anchors' href values and the text nodes that are
\* children of elements, each with its parent's tag and its trimmed text.

The  == <<"T", "h", "e">>
the  == <<"t", "h", "e">>
ship == <<"s", "h", "i", "p">>
week == <<"w", "e", "e", "k">>
Hi   == <<"H", "i">>
page == <<"p", "a", "g", "e">>

Node(tag, text) == [tag |-> tag, text |-> text]

Page1 == [anchors |-> <<"/about", "http://[">>,
          nodes   |-> <<Node("p", <<Hi, ship>>), Node("div", <<page>>),
                        Node("p", <<>>), Node("p", <<ship>>)>>]
Page2 == [anchors |-> <<"https://www.w3.org/">>, nodes |-> <<Node("div", <<week>>)>>]

SmallWeb == {Page1, Page2}

\* two candidates of 28 and 22 characters
Page3 == [anchors |-> <<>>,
          nodes   |-> <<Node("p", <<ship, ship, page, the, ship, page>>),
                        Node("p", <<the, ship, page, the, ship>>)>>]

\* fifty candidates
Page4 == [anchors |-> <<>>, nodes |-> [i \in 1..50 |-> Node("p", <<Hi>>)]]

\* two candidates that no draw changes
Page5 == [anchors |-> <<>>, nodes |-> <<Node("p", <<Hi>>), Node("p", <<Hi>>)>>]

NoPage == [anchors |-> <<>>, nodes |-> <<>>]

\* cheerio.load(response.data): the document the handler then mutates
Load(pg) ==
    [style   |-> 0,
     script  |-> 0,
     anchors |-> [i \in 1..Len(pg.anchors) |->
                     [href |-> pg.anchors[i], dataOriginalHref |-> <<>>, class |-> {}]],
     nodes   |-> [i \in 1..Len(pg.nodes) |->
                     [tag |-> pg.nodes[i].tag, content |-> PlainTokens(pg.nodes[i].text)]],
     vocab   |-> <<>>]

\* new URL(href, base) throws
Unresolvable(href) == href = "http://["

\* new URL(href, base).href
Resolve(href, base) ==
    IF href = "/about"
    THEN IF base = "https://example.com" THEN "https://example.com/about"
         ELSE "https://www.w3.org/about"
    ELSE href

RewriteLinksClassFirst(anchors, base) ==
    [i \in 1..Len(anchors) |->
        IF anchors[i].href = "" THEN anchors[i]
        ELSE IF Unresolvable(anchors[i].href)
        THEN [anchors[i] EXCEPT !.class = @ \cup {"translated-link"}]
        ELSE [anchors[i] EXCEPT !.dataOriginalHref = <<Resolve(anchors[i].href, base)>>,
                                !.class = @ \cup {"translated-link"}]]

\* $('a').each(...) of routes.ts 418-431
RewriteLinks(anchors, base) ==
    [i \in 1..Len(anchors) |->
        IF anchors[i].href = "" \/ Unresolvable(anchors[i].href)
        THEN anchors[i]
        ELSE [anchors[i] EXCEPT !.dataOriginalHref = <<Resolve(anchors[i].href, base)>>,
                                !.class = @ \cup {"translated-link"}]]

\* the selector of the version: "p, article p, ..." or "p, h1, ..., span, div"
Scope(v) == IF v \in {"pattern", "dictionary"} THEN {"p"} ELSE {"p", "div"}

RECURSIVE QualifyingFrom(_, _, _)
QualifyingFrom(nodes, i, tags) ==
    IF i > Len(nodes) THEN <<>>
    ELSE (IF nodes[i].tag \in tags /\ TextLength(nodes[i].text) > 0 THEN <<i>> ELSE <<>>)
         \o QualifyingFrom(nodes, i + 1, tags)

\* textNodes: the positions, in document order, of the text nodes in scope
\* whose data.trim() is not empty
textNodes(pg, v) == QualifyingFrom(pg.nodes, 1, Scope(v))

\* a candidate whose text holds double quotes
said == <<"s", "a", "i", "d">>
quotedHi == <<"\"", "h", "i", "\"">>
Page6 == [anchors |-> <<>>, nodes |-> <<Node("p", <<said, quotedHi>>)>>]

\* ------------------------------------------------------------ dictionary
\* The dictionary revision (unnamed/part_002 76-387): sv_en.txt is read once,
\* when the module is loaded, into dictionaryPromise.

den == <<"d", "e", "n">>
class == <<"c", "l", "a", "s", "s">>
klass == <<"k", "l", "a", "s", "s">>
skepp == <<"s", "k", "e", "p", "p">>

\* the lines of sv_en.txt, split at ';' and trimmed
DictionaryFile ==
    << [english |-> The, swedish |-> den],
       [english |-> ship, swedish |-> skepp],
       [english |-> class, swedish |-> klass],
       [english |-> page, swedish |-> <<>>] >>

\* Map.set
MapSet(map, key, value) ==
    [k \in DOMAIN map \cup {key} |-> IF k = key THEN value ELSE map[k]]

EmptyMap == [k \in {} |-> <<>>]

RECURSIVE ReadLines(_, _)
ReadLines(lines, map) ==
    IF lines = <<>> THEN map
    ELSE LET line == Head(lines)
         IN ReadLines(Tail(lines),
                      IF line.english # <<>> /\ line.swedish # <<>>
                      THEN MapSet(map, ToLowerCase(line.english), line.swedish)
                      ELSE map)

\* what loadDictionary can resolve with: the file's entries, or, when readFile
\* fails, the empty Map
loadDictionary == {ReadLines(DictionaryFile, EmptyMap), EmptyMap}

NoDictionary == [loads |-> 0, status |-> "none", map |-> EmptyMap]

\* const dictionaryPromise = loadDictionary(): one call, at module load
ModuleLoaded == [loads |-> 1, status |-> "pending", map |-> EmptyMap]

awaitDictionaryReloading(d) == [d EXCEPT !.loads = @ + 1]

\* const dictionary = await dictionaryPromise: the module's one promise
awaitDictionaryPromise(d) == d

\* the first position of text[i] in text
FirstAt(text, i) == CHOOSE j \in 1..i : text[j] = text[i] /\ \A k \in 1..(j - 1) : text[k] # text[i]

\* A string as the regular expressions of translateText see it: pieces that
\* are runs of word characters (\w+), and pieces of other characters between.
WordPiece(chars) == [w |-> TRUE, s |-> chars]
Sep(string) == [w |-> FALSE, s |-> <<string>>]

\* a trimmed text: its words, one space between two
TextPieces(text) ==
    [n \in 1..(IF text = <<>> THEN 0 ELSE 2 * Len(text) - 1) |->
        IF n % 2 = 1 THEN WordPiece(text[(n + 1) \div 2]) ELSE Sep(" ")]

\* `<span class="swedish-text" title="Original: ${original}">${translated}</span>`
SpanPieces(original, translated) ==
    << Sep("<"), WordPiece(<<"s", "p", "a", "n">>), Sep(" "),
       WordPiece(class), Sep("=\""),
       WordPiece(<<"s", "w", "e", "d", "i", "s", "h">>), Sep("-"),
       WordPiece(<<"t", "e", "x", "t">>), Sep("\" "),
       WordPiece(<<"t", "i", "t", "l", "e">>), Sep("=\""),
       WordPiece(<<"O", "r", "i", "g", "i", "n", "a", "l">>), Sep(": "),
       WordPiece(original), Sep("\">"),
       WordPiece(translated), Sep("</"),
       WordPiece(<<"s", "p", "a", "n">>), Sep(">") >>

RECURSIVE ReplacePassFirstOnly(_, _, _)
ReplacePassFirstOnly(pieces, original, translated) ==
    IF pieces = <<>> THEN <<>>
    ELSE IF Head(pieces) = WordPiece(original)
    THEN SpanPieces(original, translated) \o Tail(pieces)
    ELSE <<Head(pieces)>> \o ReplacePassFirstOnly(Tail(pieces), original, translated)

\* translatedText.replace(new RegExp(`\\b${original}\\b`, 'g'), `<span ...>`):
\* every run of word characters that is the word, wherever it stands
RECURSIVE ReplacePass(_, _, _)
ReplacePass(pieces, original, translated) ==
    IF pieces = <<>> THEN <<>>
    ELSE (IF Head(pieces) = WordPiece(original)
          THEN SpanPieces(original, translated) ELSE <<Head(pieces)>>)
         \o ReplacePass(Tail(pieces), original, translated)

\* for (const [original, translated] of translations.entries()): one pass per
\* entry, in insertion order, each over the output of the pass before
RECURSIVE ReplaceLoop(_, _)
ReplaceLoop(pieces, entries) ==
    IF entries = <<>> THEN pieces
    ELSE ReplaceLoop(ReplacePass(pieces, Head(entries).original, Head(entries).translated),
                     Tail(entries))

\* the string as content of the node it replaces: a whole span is a
\* substitution, a word is a word, the spaces between separate them, and
\* markup that is no whole span is kept as the characters it is
RECURSIVE ParsePieces(_)
ParsePieces(pieces) ==
    IF pieces = <<>> THEN <<>>
    ELSE IF /\ Len(pieces) >= 19
            /\ pieces[14].w /\ pieces[16].w
            /\ SubSeq(pieces, 1, 19) = SpanPieces(pieces[14].s, pieces[16].s)
    THEN <<Span(pieces[14].s, pieces[16].s)>> \o ParsePieces(SubSeq(pieces, 20, Len(pieces)))
    ELSE IF Head(pieces) = Sep(" ") THEN ParsePieces(Tail(pieces))
    ELSE <<Plain(Head(pieces).s)>> \o ParsePieces(Tail(pieces))

\* translateText of unnamed/part_002 107-145 on the draws of its unique words
translateTextDictionary(text, map, draws) ==
    LET chosen(i) == /\ ToLowerCase(text[i]) \in DOMAIN map
                     /\ draws[FirstAt(text, i)].include
        firsts == SelectSeq([i \in 1..Len(text) |-> i],
                            LAMBDA i : chosen(i) /\ FirstAt(text, i) = i)
        wordPairs == [n \in 1..Len(firsts) |->
                         [original |-> text[firsts[n]],
                          translated |-> map[ToLowerCase(text[firsts[n]])]]]
        markup == ReplaceLoop(TextPieces(text), wordPairs)
    IN [translatedText |-> ParsePieces(markup),
        wordPairs |-> wordPairs,
        markup |-> markup]

\* ----------------------------------------------------------------- state

VARIABLES
    config,    \* the deployment and its environment, fixed in a behaviour:
               \*   version  the revision of the handler that is deployed
               \*   web      the pages upstream may serve
               \*   bodies   the request bodies clients send
               \*   clients  the requests that may arrive
               \*   seeded   TRUE: Math.random is a pinned sequence; FALSE: any value
    storage,   \* the MemStorage singleton
    req,       \* per request: where its handler stands, and its locals
    lastCall,  \* the last call of a /api/preferences route and its answer
    dictionary,\* dictionaryPromise of the dictionary revision
    home,      \* the Home component of the embedding page
    call       \* a function of routes.ts applied on its own: arguments, result

vars == <<config, storage, req, lastCall, dictionary, home, call>>

\* what the /api/translate handler never touches
others == <<lastCall, home, call>>

version == config.version

\* the revisions whose handler is that of routes.ts 314-538
Current == version \in {"pattern", "dictionary"}
web == config.web
seeded == config.seeded

NoError == [status |-> 0, message |-> ""]

\* what axios.get rejects with: error.response.status (0: no response) and message
FetchErrors ==
    { [status |-> 403, message |-> "Request failed with status code 403"],
      [status |-> 404, message |-> "Request failed with status code 404"],
      [status |-> 0,   message |-> "timeout of 10000ms exceeded"] }

\* what a later stage throws inside the try block
InternalErrors == { [status |-> 0, message |-> ""] }

TestUrls == <<"https://example.com", "https://www.w3.org/",
              "https://www.webscraper.io/test-sites/e-commerce/allinone">>

NoResult == [translatedText |-> <<>>, wordPairs |-> <<>>]

IdleRequest ==
    [pc |-> "idle",
     body |-> Body("", "undefined", 0, "undefined"),
     upstream |-> NoPage,
     dom |-> Load(NoPage),
     textNodes |-> <<>>,
     nodesToTranslate |-> 0,
     indices |-> {},
     i |-> 0,
     result |-> NoResult,
     allWordPairs |-> <<>>,
     translatedCount |-> 0,
     targetLength |-> 0,
     currentLength |-> 0,
     replaced |-> <<>>,
     error |-> NoError,
     responses |-> <<>>,
     fetches |-> 0,
     saves |-> 0,
     dictionaries |-> {}]

NotCalled == [fn |-> "none"]

\* what the /api/preferences routes may be sent as req.body
PreferenceBodies ==
    { [translationPercentage |-> 45],
      [translationPercentage |-> 150],
      [lastUrl |-> "https://example.com"],
      [language |-> "german"],
      [translationPercentage |-> 0, lastUrl |-> "https://www.w3.org/",
       language |-> "swedish"],
      [f \in {} |-> 0] }

NoCall == [method |-> "none", body |-> [f \in {} |-> 0],
           before |-> NewStorage, after |-> NewStorage,
           response |-> NewStorage.preferences]

\* Home.tsx: the values the url input can hold, and those that start with http
DEFAULT_URL == "https://example.com"
ClientUrls == {DEFAULT_URL, "https://www.w3.org/", "https://example.com/about",
               "ftp://example.com/file", ""}
StartsWithHttp(u) == u \in ClientUrls \ {"ftp://example.com/file", ""}
Percents == {0, 30, 100}

NoRequest == [url |-> "", translationPercentage |-> 0]

\* useState(DEFAULT_URL), useState([30]); rendered is what the committed
\* render's closures (mutationFn, the button's disabled) see
NewHome ==
    [url |-> DEFAULT_URL,
     translationPercent |-> 30,
     rendered |-> [url |-> DEFAULT_URL, translationPercent |-> 30],
     isPending |-> FALSE,
     cause |-> "none",
     message |-> "",
     request |-> NoRequest,
     requests |-> 0]

InitWith(v, pages, bodies, clients, pinned) ==
    /\ config = [version |-> v, web |-> pages, bodies |-> bodies,
                 clients |-> clients, seeded |-> pinned]
    /\ storage = NewStorage
    /\ req = [r \in Requests |-> IdleRequest]
    /\ lastCall = NoCall
    /\ dictionary = IF v = "dictionary" THEN ModuleLoaded ELSE NoDictionary
    /\ home = NewHome
    /\ call = NotCalled

Init == InitWith("pattern", SmallWeb, ValidBodies \cup InvalidBodies, {1, 2}, FALSE)

\* ------------------------------------------------------------- responses

Response(status, fields, details, testUrls, html) ==
    [status |-> status, fields |-> fields, details |-> details,
     testUrls |-> testUrls, html |-> html]

\* res.status(400).json(...) of the validation branch
BadRequest(v) ==
    IF v = "early"
    THEN Response(400, {"error"}, "", <<>>, <<>>)
    ELSE Response(400, {"error", "details"}, "ZodError", <<>>, <<>>)

CaughtNo403(v, err) ==
    Response(500, {"error", "details"},
             IF err.message # "" THEN err.message ELSE "Unknown error", <<>>, <<>>)

\* the catch block: routes.ts 517-537 (and 139-159), part_002 68-70
Caught(v, err) ==
    IF v = "early"
    THEN Response(500, {"error"}, "", <<>>, <<>>)
    ELSE IF err.status = 403 /\ v # "italic"
    THEN Response(403, {"error", "details", "testUrls"},
                  "This website doesn't allow automated access.", TestUrls, <<>>)
    ELSE Response(500, {"error", "details"},
                  IF err.message # "" THEN err.message ELSE "Unknown error", <<>>, <<>>)

Ok(dom) == Response(200, {"html"}, "", <<>>, <<dom>>)

Set(r, rec) == req' = [req EXCEPT ![r] = rec]

\* --------------------------------------------------------------- actions

\* POST /api/translate arrives: safeParse, then either 400 or axios.get(url)
Receive(r) ==
    /\ r \in config.clients
    /\ req[r].pc = "idle"
    /\ \E body \in config.bodies :
          IF ~safeParse(body)
          THEN Set(r, [req[r] EXCEPT !.pc = "done", !.body = body,
                          !.responses = Append(@, BadRequest(version))])
          ELSE Set(r, [req[r] EXCEPT !.pc = "fetch", !.body = body,
                          !.fetches = @ + 1])
    /\ UNCHANGED <<config, storage, dictionary, others>>

\* textNodes.each(...): the sum of the candidates' trimmed lengths
RECURSIVE totalLength(_, _)
totalLength(pg, cand) ==
    IF cand = <<>> THEN 0
    ELSE TextLength(pg.nodes[Head(cand)].text) + totalLength(pg, Tail(cand))

\* the statements from cheerio.load to the selection's target
Prepared(rq, pg) ==
    LET cand == textNodes(pg, version)
        pct  == rq.body.translationPercentage
        dom0 == Load(pg)
        dom1 == IF version = "early" THEN dom0 ELSE [dom0 EXCEPT !.style = @ + 1]
        dom2 == IF Current
                THEN [dom1 EXCEPT !.anchors = RewriteLinks(@, rq.body.url),
                                  !.script = @ + 1]
                ELSE dom1
        total == totalLength(pg, cand)
    IN [rq EXCEPT !.upstream = pg,
                  !.dom = dom2,
                  !.textNodes = cand,
                  !.nodesToTranslate =
                      IF version = "weighted" THEN 0 ELSE FloorOfProduct(Len(cand), pct),
                  !.targetLength =
                      IF version = "weighted" THEN FloorOfProduct(total, pct) ELSE 0]

\* axios.get resolves; the handler runs on to its first loop
FetchResolve(r) ==
    /\ req[r].pc = "fetch"
    /\ \E pg \in web :
          LET rq == Prepared(req[r], pg)
          IN Set(r, [rq EXCEPT !.pc = IF rq.nodesToTranslate > 0 THEN "draw" ELSE "loop"])
    /\ UNCHANGED <<config, storage, dictionary, others>>

FetchRejectRetrying(r) ==
    /\ req[r].pc = "fetch"
    /\ \E err \in FetchErrors :
          IF req[r].fetches < 2
          THEN Set(r, [req[r] EXCEPT !.fetches = @ + 1])
          ELSE Set(r, [req[r] EXCEPT !.pc = "done", !.error = err,
                          !.responses = Append(@, Caught(version, err))])
    /\ UNCHANGED <<config, storage, dictionary, others>>

\* axios.get rejects: the catch block answers
FetchReject(r) ==
    /\ req[r].pc = "fetch"
    /\ \E err \in FetchErrors :
          Set(r, [req[r] EXCEPT !.pc = "done", !.error = err,
                     !.responses = Append(@, Caught(version, err))])
    /\ UNCHANGED <<config, storage, dictionary, others>>

\* Math.floor(Math.random() * textNodes.length)
RandomIndex(rq) ==
    IF seeded THEN {Cardinality(rq.indices) % Len(rq.textNodes)}
    ELSE 0..(Len(rq.textNodes) - 1)

\* one turn of: while (indices.size < nodesToTranslate) indices.add(...)
Draw(r) ==
    /\ req[r].pc = "draw"
    /\ Cardinality(req[r].indices) < req[r].nodesToTranslate
    /\ \E k \in RandomIndex(req[r]) :
          LET ind == req[r].indices \cup {k}
          IN Set(r, [req[r] EXCEPT !.indices = ind,
                        !.pc = IF Cardinality(ind) < req[r].nodesToTranslate
                               THEN "draw" ELSE "loop"])
    /\ UNCHANGED <<config, storage, dictionary, others>>

\* the next i >= rq.i the loop body runs for (0-based), or -1 when the loop ends
NextSelected(rq) ==
    LET n == Len(rq.textNodes)
    IN IF version = "weighted"
       THEN IF rq.i < n /\ rq.currentLength < rq.targetLength THEN rq.i ELSE -1
       ELSE IF \E k \in rq.i..(n - 1) : k \in rq.indices
            THEN CHOOSE k \in rq.i..(n - 1) :
                     k \in rq.indices /\ \A j \in rq.i..(k - 1) : j \notin rq.indices
            ELSE -1

OriginalText(rq, k) == rq.upstream.nodes[rq.textNodes[k + 1]].text

\* the draws of one translateText call
RandomDraws(text) ==
    IF version = "dictionary"
    THEN [1..Len(text) -> {[include |-> b, ending |-> 0] : b \in BOOLEAN}]
    ELSE IF version # "pattern" THEN {[j \in 1..Len(text) |-> NoDraw]}
    ELSE IF seeded THEN {[j \in 1..Len(text) |-> [include |-> TRUE, ending |-> 0]]}
    ELSE [1..Len(text) -> WordDraws]

translateText(text, language, draws) ==
    IF version = "pattern" THEN translateTextPattern(text, language, draws)
    ELSE IF version = "weighted" THEN translateTextTable(text)
    ELSE IF version = "italic" THEN translateTextItalic(text)
    ELSE IF version = "dictionary" THEN translateTextDictionary(text, dictionary.map, draws)
    ELSE translateTextMock(text)

\* the loop reaches a selected node and calls translateText
Translate(r) ==
    /\ req[r].pc = "loop"
    /\ NextSelected(req[r]) >= 0
    /\ version = "dictionary" => dictionary.status = "settled"
    /\ LET k    == NextSelected(req[r])
           text == OriginalText(req[r], k)
       IN \E draws \in RandomDraws(text) :
             Set(r, [req[r] EXCEPT !.pc = "translated", !.i = k,
                        !.result = translateText(text, req[r].body.language, draws),
                        !.dictionaries = IF version = "dictionary"
                                         THEN @ \cup {dictionary.map} ELSE @])
    /\ dictionary' = IF version = "dictionary"
                     THEN awaitDictionaryPromise(dictionary) ELSE dictionary
    /\ UNCHANGED <<config, storage, others>>

SaveTwice(r) ==
    /\ req[r].pc = "translated"
    /\ LET translation == [originalText |-> OriginalText(req[r], req[r].i),
                           translatedText |-> req[r].result.translatedText,
                           url |-> req[r].body.url]
       IN storage' = saveTranslation(saveTranslation(storage, translation), translation)
    /\ Set(r, [req[r] EXCEPT !.pc = "saved", !.saves = @ + 1])
    /\ UNCHANGED <<config, dictionary, others>>

\* await translateText returns; storage.saveTranslation is called
Save(r) ==
    /\ req[r].pc = "translated"
    /\ storage' = saveTranslation(storage,
                     [originalText |-> OriginalText(req[r], req[r].i),
                      translatedText |-> req[r].result.translatedText,
                      url |-> req[r].body.url])
    /\ Set(r, [req[r] EXCEPT !.pc = "saved", !.saves = @ + 1])
    /\ UNCHANGED <<config, dictionary, others>>

\* await saveTranslation returns: $(node).replaceWith(translatedText), the
\* counters, and on to the next turn of the loop
Replace(r) ==
    /\ req[r].pc = "saved"
    /\ LET rq == req[r]
           at == rq.textNodes[rq.i + 1]
       IN Set(r, [rq EXCEPT !.pc = "loop",
                     !.dom.nodes[at].content = rq.result.translatedText,
                     !.allWordPairs = @ \o rq.result.wordPairs,
                     !.translatedCount = @ + 1,
                     !.currentLength = @ + TextLength(OriginalText(rq, rq.i)),
                     !.replaced = Append(@, rq.i),
                     !.result = NoResult,
                     !.i = @ + 1])
    /\ UNCHANGED <<config, storage, dictionary, others>>

RECURSIVE FirstKeys(_, _)
FirstKeys(pairs, seen) ==
    IF pairs = <<>> THEN <<>>
    ELSE IF Head(pairs).original \in seen THEN FirstKeys(Tail(pairs), seen)
    ELSE <<Head(pairs).original>> \o FirstKeys(Tail(pairs), seen \cup {Head(pairs).original})

LastWith(pairs, key) ==
    pairs[CHOOSE j \in 1..Len(pairs) :
              /\ pairs[j].original = key
              /\ \A l \in (j + 1)..Len(pairs) : pairs[l].original # key]

uniqueWordPairsKeepAll(pairs) == pairs

uniqueWordPairsFirstWins(pairs) ==
    SelectSeq(pairs, LAMBDA pair :
        \E j \in 1..Len(pairs) :
            /\ pairs[j] = pair
            /\ \A l \in 1..(j - 1) : pairs[l].original # pair.original)

\* Array.from(new Map(allWordPairs.map(item => [item.original, item])).values())
uniqueWordPairs(pairs) ==
    LET keys == FirstKeys(pairs, {})
    IN [j \in 1..Len(keys) |-> LastWith(pairs, keys[j])]

FinishEarly(r) ==
    /\ req[r].pc = "loop"
    /\ LET rq  == req[r]
           dom == IF Current
                  THEN [rq.dom EXCEPT !.vocab = Append(@, uniqueWordPairs(rq.allWordPairs))]
                  ELSE rq.dom
       IN Set(r, [rq EXCEPT !.pc = "done", !.dom = dom,
                     !.responses = Append(@, Ok(dom))])
    /\ UNCHANGED <<config, storage, dictionary, others>>

\* the loop is over: the vocabulary list, then res.json({ html: $.html() })
Finish(r) ==
    /\ req[r].pc = "loop"
    /\ NextSelected(req[r]) < 0
    /\ LET rq  == req[r]
           dom == IF Current
                  THEN [rq.dom EXCEPT !.vocab = Append(@, uniqueWordPairs(rq.allWordPairs))]
                  ELSE rq.dom
       IN Set(r, [rq EXCEPT !.pc = "done", !.dom = dom,
                     !.responses = Append(@, Ok(dom))])
    /\ UNCHANGED <<config, storage, dictionary, others>>

\* a statement inside the try block throws after the fetch: the catch block answers
StageThrow(r) ==
    /\ req[r].pc \in {"draw", "loop", "translated"}
    /\ \E err \in InternalErrors :
          Set(r, [req[r] EXCEPT !.pc = "done", !.error = err,
                     !.responses = Append(@, Caught(version, err))])
    /\ UNCHANGED <<config, storage, dictionary, others>>

Next ==
    \E r \in Requests :
        \/ Receive(r)
        \/ FetchResolve(r)
        \/ FetchReject(r)
        \/ Draw(r)
        \/ Translate(r)
        \/ Save(r)
        \/ Replace(r)
        \/ Finish(r)
        \/ StageThrow(r)

Spec == Init /\ [][Next]_vars

\* readFile settles and loadDictionary returns: dictionaryPromise resolves
DictionarySettle ==
    /\ dictionary.status = "pending"
    /\ \E map \in loadDictionary :
          dictionary' = [dictionary EXCEPT !.status = "settled", !.map = map]
    /\ UNCHANGED <<config, storage, req, others>>

\* app.get("/api/preferences")
GetPreferences ==
    /\ lastCall' = [method |-> "GET", body |-> NoCall.body,
                    before |-> storage, after |-> storage,
                    response |-> getPreferences(storage)]
    /\ UNCHANGED <<config, storage, req, dictionary, home, call>>

\* app.post("/api/preferences"): req.body goes to updatePreferences as it is
PostPreferences ==
    /\ \E prefs \in PreferenceBodies :
          LET updated == updatePreferences(storage, prefs)
          IN /\ storage' = updated
             /\ lastCall' = [method |-> "POST", body |-> prefs,
                             before |-> storage, after |-> updated,
                             response |-> getPreferences(updated)]
    /\ UNCHANGED <<config, req, dictionary, home, call>>

\* what window receives as event.data
Messages ==
    {[type |-> "NAVIGATE", url |-> u] :
        u \in {"https://example.com/about", "https://www.w3.org/", ""}}
    \cup {[type |-> "OTHER", url |-> "https://www.w3.org/"]}

\* translateMutation.mutate(): mutationFn runs in the closure of the committed
\* render; it throws before apiRequest unless that render's url starts with http
mutate(h, cause, message) ==
    IF StartsWithHttp(h.rendered.url)
    THEN [h EXCEPT !.isPending = TRUE, !.cause = cause, !.message = message,
                   !.request = [url |-> h.rendered.url,
                                translationPercentage |-> h.rendered.translationPercent]]
    ELSE [h EXCEPT !.isPending = FALSE, !.cause = "none", !.message = "",
                   !.request = NoRequest]

\* the JSON body apiRequest posts to /api/translate for a request of Home:
\* url and translationPercentage, and no language property
ClientBody(request) ==
    Body(request.url, "number", request.translationPercentage, "undefined")

\* handleMessage: setUrl(event.data.url), then translateMutation.mutate()
HandleMessage ==
    /\ \E data \in Messages :
          IF data.type = "NAVIGATE" /\ data.url # ""
          THEN home' = mutate([home EXCEPT !.url = data.url], "message", data.url)
          ELSE home' = home
    /\ UNCHANGED <<config, storage, req, lastCall, dictionary, call>>

\* the url input's onChange and the test urls' onClick: setUrl
ChangeUrl ==
    /\ \E u \in ClientUrls : home' = [home EXCEPT !.url = u]
    /\ UNCHANGED <<config, storage, req, lastCall, dictionary, call>>

\* the slider's onValueChange: setTranslationPercent
SlidePercent ==
    /\ \E p \in Percents : home' = [home EXCEPT !.translationPercent = p]
    /\ UNCHANGED <<config, storage, req, lastCall, dictionary, call>>

\* React renders the component again with the state that was set
Render ==
    /\ home.rendered # [url |-> home.url, translationPercent |-> home.translationPercent]
    /\ home' = [home EXCEPT !.rendered = [url |-> home.url,
                                          translationPercent |-> home.translationPercent]]
    /\ UNCHANGED <<config, storage, req, lastCall, dictionary, call>>

\* the Translate button, unless the committed render disabled it
ClickTranslate ==
    /\ ~home.isPending
    /\ home.rendered.url # ""
    /\ StartsWithHttp(home.rendered.url)
    /\ home' = mutate(home, "click", "")
    /\ UNCHANGED <<config, storage, req, lastCall, dictionary, call>>

\* the translate request is answered: onSuccess or onError
MutationSettles ==
    /\ home.isPending
    /\ home' = [home EXCEPT !.isPending = FALSE]
    /\ UNCHANGED <<config, storage, req, lastCall, dictionary, call>>

\* the words transform is applied to on its own: those of length 1..MaxWordLen
\* over letters the rules of both languages act on
Letters == {"c", "h", "k", "s", "t", "C"}
Words == UNION {[1..n -> Letters] : n \in 1..MaxWordLen}
Languages == {"swedish", "german"}

\* transform(word) of translateText(text, language), with the ending drawn
TransformWord ==
    /\ call.fn = "none"
    /\ \E word \in Words, language \in Languages, ending \in 0..MaxEnding :
          call' = [fn |-> "transform", word |-> word, language |-> language,
                   ending |-> ending, result |-> transform(word, language, ending)]
    /\ UNCHANGED <<config, storage, req, lastCall, dictionary, home>>

SpecTransform ==
    /\ InitWith("pattern", SmallWeb, ValidBodies, {}, FALSE)
    /\ [][TransformWord]_vars

\* the texts translateText is applied to on its own
TextWords == {the, class, ship, Hi}
Texts == UNION {[1..n -> TextWords] : n \in 1..MaxTextLen}

\* translateText of the dictionary revision on a text, a dictionary and draws
TranslateWithDictionary ==
    /\ call.fn = "none"
    /\ \E text \in Texts, map \in loadDictionary :
          \E draws \in [1..Len(text) -> {[include |-> b, ending |-> 0] : b \in BOOLEAN}] :
             call' = [fn |-> "translateTextDictionary", text |-> text, map |-> map,
                      draws |-> draws,
                      result |-> translateTextDictionary(text, map, draws)]
    /\ UNCHANGED <<config, storage, req, lastCall, dictionary, home>>

SpecDictionaryText ==
    /\ InitWith("dictionary", SmallWeb, ValidBodies, {}, FALSE)
    /\ [][TranslateWithDictionary]_vars

\* the texts the pattern-substitution translateText is applied to on its own
PatternWords == {Hi, ship, The}
PatternTexts == UNION {[1..n -> PatternWords] : n \in 1..MaxTextLen}

\* translateText of routes.ts 257-300 on a text, a language and draws
TranslateWithPatterns ==
    /\ call.fn = "none"
    /\ \E text \in PatternTexts, language \in Languages :
          \E draws \in [1..Len(text) -> WordDraws] :
             call' = [fn |-> "translateTextPattern", text |-> text,
                      language |-> language, draws |-> draws,
                      result |-> translateTextPattern(text, language, draws)]
    /\ UNCHANGED <<config, storage, req, lastCall, dictionary, home>>

SpecPatternText ==
    /\ InitWith("pattern", SmallWeb, ValidBodies, {}, FALSE)
    /\ [][TranslateWithPatterns]_vars

\* The current revision, one request, under a random source that does not
\* return indices already drawn for ever.
SpecFairDraw ==
    /\ InitWith("pattern", SmallWeb, ValidBodies \cup InvalidBodies, {1}, FALSE)
    /\ [][Next]_vars
    /\ \A r \in Requests : WF_vars(Draw(r))

\* the pairs translateText can return for three words, and lists of them
WordPairs ==
    {[original |-> w, translated |-> transform(w, "swedish", e)] :
        w \in {ship, page, week}, e \in 0..MaxEnding}
PairLists == UNION {[1..n -> WordPairs] : n \in 1..MaxPairs}

\* uniqueWordPairs of routes.ts 490-492 on a list of pairs
DeduplicatePairs ==
    /\ call.fn = "none"
    /\ \E pairs \in PairLists :
          call' = [fn |-> "uniqueWordPairs", pairs |-> pairs,
                   result |-> uniqueWordPairs(pairs)]
    /\ UNCHANGED <<config, storage, req, lastCall, dictionary, home>>

SpecVocabulary ==
    /\ InitWith("pattern", SmallWeb, ValidBodies, {}, FALSE)
    /\ [][DeduplicatePairs]_vars

\* The length-weighted revision: its handler has no index-drawing loop.
NextWeighted ==
    \E r \in Requests :
        \/ Receive(r)
        \/ FetchResolve(r)
        \/ FetchReject(r)
        \/ Translate(r)
        \/ Save(r)
        \/ Replace(r)
        \/ Finish(r)
        \/ StageThrow(r)

SpecWeighted ==
    /\ InitWith("weighted", SmallWeb \cup {Page3},
                ValidBodies \cup InvalidBodies
                    \cup {Body("https://example.com", "number", 58, "string")},
                {1}, FALSE)
    /\ [][NextWeighted]_vars

\* The earliest revision.
SpecEarly ==
    /\ InitWith("early", SmallWeb, ValidBodies \cup InvalidBodies, {1}, FALSE)
    /\ [][Next]_vars

\* The revision whose mock wraps the whole segment in an <i> element.
SpecItalic ==
    /\ InitWith("italic", SmallWeb \cup {Page6}, ValidBodies \cup InvalidBodies,
                {1}, FALSE)
    /\ [][Next]_vars

\* The dictionary revision, two requests next to the loading of the file.
NextDictionary ==
    \/ DictionarySettle
    \/ \E r \in Requests :
        \/ Receive(r)
        \/ FetchResolve(r)
        \/ FetchReject(r)
        \/ Draw(r)
        \/ Translate(r)
        \/ Save(r)
        \/ Replace(r)
        \/ Finish(r)
        \/ StageThrow(r)

SpecDictionary ==
    /\ InitWith("dictionary", {Page1},
                {Body("https://example.com", "number", 100, "string"),
                 Body("notaurl", "number", 50, "string")},
                {1, 2}, FALSE)
    /\ [][NextDictionary]_vars

\* The /api/preferences routes next to one translate request.
NextPreferences ==
    \/ GetPreferences
    \/ PostPreferences
    \/ \E r \in Requests :
        \/ Receive(r)
        \/ FetchResolve(r)
        \/ FetchReject(r)
        \/ Draw(r)
        \/ Translate(r)
        \/ Save(r)
        \/ Replace(r)
        \/ Finish(r)
        \/ StageThrow(r)

SpecPreferences ==
    /\ InitWith("pattern", {Page5},
                {Body("https://example.com", "number", 100, "string"),
                 Body("https://example.com", "number", 101, "string")},
                {1}, TRUE)
    /\ [][NextPreferences]_vars

\* The Home component of the embedding page.
NextHome ==
    \/ HandleMessage
    \/ ChangeUrl
    \/ SlidePercent
    \/ Render
    \/ ClickTranslate
    \/ MutationSettles

SpecHome ==
    /\ InitWith("pattern", SmallWeb, ValidBodies, {}, FALSE)
    /\ [][NextHome]_vars

\* The current revision on a page of fifty candidates, Math.random pinned.
SpecSeeded ==
    /\ InitWith("pattern", {Page4},
                {Body("https://example.com", "number", p, "string") : p \in {58, 100}}
                    \cup {Body("notaurl", "number", 50, "string")},
                {1}, TRUE)
    /\ [][Next]_vars

\* The current revision under as many concurrent requests as the bound allows.
SpecConcurrent ==
    /\ InitWith("pattern", {Page5},
                {Body(u, "number", 100, "string") : u \in Urls}
                    \cup {Body("notaurl", "number", 50, "string")},
                Requests, FALSE)
    /\ [][Next]_vars

\* ---------------------------------------------------------------- claims

Answered(r) == req[r].responses # <<>>
Answer(r) == req[r].responses[1]
AnsweredWith(r, status) == Answered(r) /\ Answer(r).status = status

\* the body is one webpageSchema rejects: a url that is no URL, a percentage
\* that is no number or lies outside 0..100, or a language that is no string
FailsSchema(body) ==
    \/ body.url = "notaurl"
    \/ body.pctType # "number"
    \/ body.translationPercentage < 0
    \/ body.translationPercentage > 100
    \/ body.languageType # "string"

\* C1: a request whose body fails webpageSchema validation is answered 400,
\* and no upstream fetch and no saveTranslation call is made for it.
C1_InvalidBodyIs400 ==
    \A r \in Requests :
        (req[r].pc # "idle" /\ FailsSchema(req[r].body)) =>
            /\ req[r].pc = "done"
            /\ Len(req[r].responses) = 1
            /\ Answer(r).status = 400
            /\ req[r].fetches = 0
            /\ req[r].saves = 0

C1_Witness ==
    \E r \in Requests :
        /\ req[r].body.url = "notaurl"
        /\ AnsweredWith(r, 400)
        /\ req[r].fetches = 0

\* C2: when the upstream fetch of a validated request is refused with HTTP 403,
\* the answer is 403 with a testUrls array of exactly three entries, and never
\* 200 or 500.
C2_Upstream403Is403 ==
    \A r \in Requests :
        req[r].error.status = 403 =>
            /\ Len(req[r].responses) = 1
            /\ Answer(r).status = 403
            /\ "testUrls" \in Answer(r).fields
            /\ Len(Answer(r).testUrls) = 3
            /\ \A k \in 1..Len(req[r].responses) :
                   req[r].responses[k].status \notin {200, 500}

C2_Witness ==
    \E r \in Requests :
        /\ req[r].fetches = 1
        /\ req[r].error.status = 403
        /\ AnsweredWith(r, 403)

\* a stage of a validated request failed, and not by an upstream 403
FailedOtherThan403(r) ==
    /\ req[r].fetches > 0
    /\ req[r].pc = "done"
    /\ ~AnsweredWith(r, 200)
    /\ req[r].error.status # 403

\* C3: for a validated request, a failure of the fetch, parse, transform, persist
\* or serialize stage other than an upstream 403 is answered with 500 carrying
\* both an error and a details field.
C3_FailureIs500WithDetails ==
    \A r \in Requests :
        FailedOtherThan403(r) =>
            /\ Len(req[r].responses) = 1
            /\ Answer(r).status = 500
            /\ {"error", "details"} \subseteq Answer(r).fields
            /\ Answer(r).details # ""

\* every stage of the pipeline has run for the request
AllStagesDone(r) ==
    /\ req[r].fetches = 1
    /\ req[r].error = NoError
    /\ NextSelected(req[r]) < 0
    /\ req[r].saves = req[r].translatedCount
    /\ req[r].saves = Len(req[r].replaced)

\* C4: a request receives exactly one response, one of 200, 400, 403 and 500;
\* html is sent only after every stage has completed, and never for a request
\* in which a stage failed.
C4_OneResponseHtmlOnlyOnSuccess ==
    \A r \in Requests :
        /\ Len(req[r].responses) <= 1
        /\ (req[r].pc = "done") <=> Answered(r)
        /\ Answered(r) => Answer(r).status \in {200, 400, 403, 500}
        /\ (Answered(r) /\ Answer(r).html # <<>>) =>
               (Answer(r).status = 200 /\ AllStagesDone(r))
        /\ (Answered(r) /\ Answer(r).status = 200) => Answer(r).html = <<req[r].dom>>
        /\ req[r].error # NoError => (Answered(r) /\ Answer(r).html = <<>>)
        /\ (req[r].pc \notin {"idle", "done"}) =>
               ENABLED (FetchResolve(r) \/ FetchReject(r) \/ Draw(r) \/ Translate(r)
                            \/ Save(r) \/ Replace(r) \/ Finish(r))

C4_Witness ==
    \E r \in Requests :
        /\ AnsweredWith(r, 200)
        /\ req[r].saves = 2
        /\ \E k \in 1..Len(req[r].dom.nodes), j \in 1..2 :
               /\ j <= Len(req[r].dom.nodes[k].content)
               /\ req[r].dom.nodes[k].content[j].span

\* the request's candidate count and percentage
Candidates(r) == Len(req[r].textNodes)
Pct(r) == req[r].body.translationPercentage

\* floor(total * pct / 100) in exact arithmetic
ExactTarget(total, pct) == (total * pct) \div 100

\* the index-drawing loop of a count-uniform revision has ended
SelectionOver(r) ==
    /\ version # "weighted"
    /\ \/ req[r].pc \in {"loop", "translated", "saved"}
       \/ AnsweredWith(r, 200)

\* C5: in count-uniform selection the set of selected indices has exactly
\* floor(n * pct / 100) elements, all distinct and within 0..n-1, whatever the
\* random source returns.
C5_ExactCount ==
    \A r \in Requests :
        SelectionOver(r) =>
            /\ Cardinality(req[r].indices) = ExactTarget(Candidates(r), Pct(r))
            /\ req[r].indices \subseteq 0..(Candidates(r) - 1)

\* the trimmed length of candidate k (0-based) and of the first k candidates
CandidateLength(r, k) == TextLength(OriginalText(req[r], k))

RECURSIVE PrefixLength(_, _)
PrefixLength(r, k) ==
    IF k = 0 THEN 0 ELSE PrefixLength(r, k - 1) + CandidateLength(r, k - 1)

\* the length of the shortest prefix of the candidates that reaches target
ShortestPrefix(r, target) ==
    CHOOSE k \in 0..Candidates(r) :
        /\ PrefixLength(r, k) >= target
        /\ \A j \in 0..(k - 1) : PrefixLength(r, j) < target

\* C6: in length-weighted selection the transformed candidates are exactly the
\* shortest prefix, in document order, whose accumulated trimmed length reaches
\* floor(totalLength * pct / 100); the achieved length is at least that target
\* and exceeds it by less than the length of the last candidate transformed.
C6_ShortestPrefixReachingTarget ==
    \A r \in Requests :
        (version = "weighted" /\ AnsweredWith(r, 200)) =>
            LET target == ExactTarget(PrefixLength(r, Candidates(r)), Pct(r))
                k      == ShortestPrefix(r, target)
            IN /\ req[r].replaced = [j \in 1..k |-> j - 1]
               /\ req[r].currentLength >= target
               /\ k > 0 => req[r].currentLength - target < CandidateLength(r, k - 1)

HasSpan(content) == \E j \in 1..Len(content) : content[j].span

NoSpanIn(dom) == \A k \in 1..Len(dom.nodes) : ~HasSpan(dom.nodes[k].content)

\* the document without the injected style and script
Strip(dom) == [dom EXCEPT !.style = 0, !.script = 0]

ZeroPercentAnswered(r) == AnsweredWith(r, 200) /\ Pct(r) = 0

MarkedAnchors(r) ==
    LET a == Load(req[r].upstream).anchors
    IN [k \in 1..Len(a) |->
           IF a[k].href \in {"", "http://["} THEN a[k]
           ELSE [href |-> a[k].href,
                 dataOriginalHref |-> <<Resolve(a[k].href, req[r].body.url)>>,
                 class |-> {"translated-link"}]]

FullPercentAnswered(r) == AnsweredWith(r, 200) /\ Pct(r) = 100

\* the content of candidate k (0-based) in the returned document
ReturnedContent(r, k) == Answer(r).html[1].nodes[req[r].textNodes[k + 1]].content

AllCandidates(r) == [j \in 1..Candidates(r) |-> j - 1]

SpanOriginals(dom) ==
    {dom.nodes[k].content[j].title :
        <<k, j>> \in {kj \in (1..Len(dom.nodes)) \X (1..2) :
                        /\ kj[2] <= Len(dom.nodes[kj[1]].content)
                        /\ dom.nodes[kj[1]].content[kj[2]].span}}

\* C9: the vocabulary list appended to the document holds no two entries with
\* the same original word, and its original words are those of the translation
\* pairs produced while transforming the request's selected segments.
C9_VocabularyDeduplicated ==
    \A r \in Requests :
        (version = "pattern" /\ AnsweredWith(r, 200)) =>
            LET html == Answer(r).html[1]
                list == html.vocab[1]
            IN /\ Len(html.vocab) = 1
               /\ \A a, b \in 1..Len(list) : list[a].original = list[b].original => a = b
               /\ {list[a].original : a \in 1..Len(list)} = SpanOriginals(html)
               /\ {list[a].original : a \in 1..Len(list)} =
                      {req[r].allWordPairs[a].original : a \in 1..Len(req[r].allWordPairs)}

C9_Witness ==
    \E r \in Requests :
        /\ AnsweredWith(r, 200)
        /\ Len(req[r].allWordPairs) = 2
        /\ Len(Answer(r).html[1].vocab[1]) = 1

RECURSIVE SavesFor(_, _)
\* the saveTranslation calls the requests of rs have completed for url u
SavesFor(rs, u) ==
    IF rs = {} THEN 0
    ELSE LET r == CHOOSE x \in rs : TRUE
         IN (IF req[r].body.url = u THEN req[r].saves ELSE 0) + SavesFor(rs \ {r}, u)

\* C10: under any interleaving of concurrent requests no saveTranslation append
\* is lost: after k calls for one url have completed, getTranslations(url)
\* returns exactly k records, one per call.
C10_NoLostAppend ==
    \A u \in Urls :
        LET list == getTranslations(storage, u)
        IN /\ Len(list) = SavesFor(Requests, u)
           /\ \A a, b \in 1..Len(list) : list[a].id = list[b].id => a = b
           /\ \A a \in 1..Len(list) : list[a].url = u

C10_Witness ==
    \E r1, r2 \in Requests :
        /\ r1 # r2
        /\ req[r1].body.url = req[r2].body.url
        /\ req[r1].pc = "saved" /\ req[r1].saves = 2
        /\ req[r2].pc = "saved" /\ req[r2].saves = 1
        /\ Len(getTranslations(storage, req[r1].body.url)) = 3

\* C11: when the embedding page receives {type: "NAVIGATE", url: u}, the
\* translate request it then issues carries url = u, not the url the input
\* state held before the message arrived.
C11_NavigateRequestCarriesNewUrl ==
    home.cause = "message" => home.request.url = home.message

\* the request has fetched its page and rewritten the links
LinksRewritten(r) == Current /\ req[r].upstream # NoPage

\* C12: an anchor whose href fails to resolve is left without the
\* data-original-href attribute and without the translated-link class, and the
\* pipeline goes on: every other anchor with an href is still marked with its
\* resolved url.
C12_UnresolvableAnchorUntouched ==
    \A r \in Requests :
        LinksRewritten(r) =>
            \A k \in 1..Len(req[r].upstream.anchors) :
                LET href == req[r].upstream.anchors[k]
                    a    == req[r].dom.anchors[k]
                IN /\ Unresolvable(href) =>
                          /\ a.dataOriginalHref = <<>>
                          /\ "translated-link" \notin a.class
                   /\ (~Unresolvable(href) /\ href # "") =>
                          /\ a.dataOriginalHref = <<Resolve(href, req[r].body.url)>>
                          /\ "translated-link" \in a.class

\* a request with an unresolvable anchor and a marked one ends in 200
C12_Witness ==
    \E r \in Requests :
        /\ AnsweredWith(r, 200)
        /\ \E k, j \in 1..Len(req[r].upstream.anchors) :
              /\ Unresolvable(req[r].upstream.anchors[k])
              /\ Answer(r).html[1].anchors[k].class = {}
              /\ Answer(r).html[1].anchors[j].class = {"translated-link"}

\* the request passed validation: its handler works with its percentage
Processed(r) == req[r].fetches > 0

\* C13: every translationPercentage the server holds lies in [0,100]: the value
\* a translate request is processed with, and the value in the stored
\* preferences record after any sequence of POST /preferences calls.
C13_PercentageWithinRange ==
    /\ \A r \in Requests :
           Processed(r) => req[r].body.translationPercentage \in 0..100
    /\ getPreferences(storage).translationPercentage \in 0..100

\* C14: GET /preferences always returns a record with the three fields
\* translationPercentage, lastUrl and language, also on the first call after
\* process start.
C14_GetReturnsThreeFields ==
    lastCall.method = "GET" =>
        {"translationPercentage", "lastUrl", "language"} \subseteq DOMAIN lastCall.response

\* C15: POST /preferences with a partial record p returns and persists the
\* previous record overridden by the fields of p: a field absent from p keeps
\* its previous value, the stored record, which the next GET /preferences
\* returns, is the merged one, and the translation-record store is unchanged.
C15_PostMergesAndPersists ==
    /\ lastCall.method = "POST" =>
           LET prev   == getPreferences(lastCall.before)
               p      == lastCall.body
               merged == lastCall.response
           IN /\ DOMAIN merged = DOMAIN prev \cup DOMAIN p
              /\ \A f \in DOMAIN p : merged[f] = p[f]
              /\ \A f \in DOMAIN prev \ DOMAIN p : merged[f] = prev[f]
              /\ getPreferences(lastCall.after) = merged
              /\ lastCall.after.translations = lastCall.before.translations
              /\ lastCall.after.currentId = lastCall.before.currentId
    /\ lastCall.method # "none" => lastCall.response = getPreferences(storage)

C15_Witness ==
    /\ lastCall.method = "GET"
    /\ lastCall.response.translationPercentage = 45
    /\ "language" \in DOMAIN lastCall.response
    /\ lastCall.response.language = "german"
    /\ lastCall.response.lastUrl = "null"
    /\ getTranslations(storage, "https://example.com") # <<>>

\* C16: the dictionary is loaded exactly once per process lifetime: however
\* many translateText calls run, concurrently or in sequence, loadDictionary is
\* invoked once, every call reads the same mapping, and no call modifies it.
C16_DictionaryLoadedOnce ==
    /\ dictionary.loads = 1
    /\ dictionary.status = "pending" => dictionary.map = EmptyMap
    /\ \A r \in Requests : req[r].dictionaries \subseteq {dictionary.map}

C16_Witness ==
    \E r1, r2 \in Requests :
        /\ r1 # r2
        /\ req[r1].saves = 2
        /\ req[r2].pc = "translated"
        /\ req[r1].dictionaries = {dictionary.map}
        /\ req[r2].dictionaries = {dictionary.map}
        /\ dictionary.map # EmptyMap

\* the segments the request has passed through translateText
Transformed(r) ==
    Len(req[r].replaced) + (IF req[r].pc \in {"translated", "saved"} THEN 1 ELSE 0)

\* C17: within one request saveTranslation is called once per transformed
\* segment, in increasing document order, each call completing before the next
\* begins, and all have completed before the 200 response is sent; the records
\* the request adds are as many as the segments it transformed.
C17_SavesSequentialInOrder ==
    /\ \A r \in Requests :
           /\ req[r].saves = Len(req[r].replaced) + (IF req[r].pc = "saved" THEN 1 ELSE 0)
           /\ Transformed(r) - req[r].saves \in {0, 1}
           /\ \A a, b \in 1..Len(req[r].replaced) :
                  a < b => req[r].replaced[a] < req[r].replaced[b]
           /\ (req[r].pc \in {"translated", "saved"} /\ req[r].replaced # <<>>) =>
                  req[r].replaced[Len(req[r].replaced)] < req[r].i
           /\ AnsweredWith(r, 200) =>
                  /\ req[r].saves = Transformed(r)
                  /\ req[r].saves = req[r].translatedCount
    /\ \A u \in Urls : Len(getTranslations(storage, u)) = SavesFor(Requests, u)

C17_Witness ==
    \E r \in Requests :
        /\ AnsweredWith(r, 200)
        /\ req[r].replaced = <<0, 1>>
        /\ req[r].saves = 2
        /\ Len(getTranslations(storage, req[r].body.url)) >= 2

\* axios.get rejected for this request
FetchFailed(r) == req[r].pc = "done" /\ req[r].fetches > 0 /\ req[r].upstream = NoPage

\* C18: if the upstream fetch fails (timeout, connection failure or non-2xx
\* status) the pipeline is aborted: the request makes no saveTranslation call,
\* leaves the translation store as it is, returns no html, and issues no second
\* fetch.
C18_FetchFailureAborts ==
    /\ \A r \in Requests :
           FetchFailed(r) =>
               /\ req[r].saves = 0
               /\ req[r].replaced = <<>>
               /\ req[r].fetches = 1
               /\ Len(req[r].responses) = 1
               /\ "html" \notin Answer(r).fields
               /\ Answer(r).html = <<>>
               /\ ~ENABLED (FetchResolve(r) \/ FetchReject(r) \/ Translate(r) \/ Save(r))
    /\ \A u \in Urls : Len(getTranslations(storage, u)) = SavesFor(Requests, u)

C18_Witness ==
    \E r1, r2 \in Requests :
        /\ FetchFailed(r1)
        /\ req[r1].error.message = "timeout of 10000ms exceeded"
        /\ req[r2].body.url = req[r1].body.url
        /\ req[r2].saves = 1

\* a node's content with each span replaced by the original in its title
Restore(content) ==
    Join([j \in 1..Len(content) |->
             IF content[j].span THEN content[j].title ELSE content[j].word])

\* C19: every substitution span written into the document carries the original
\* text of what it replaced in its title attribute: replacing each span by the
\* original held in its attribute gives back the segment text as it was before
\* transformation.
C19_OriginalRecoverable ==
    \A r \in Requests :
        \A n \in 1..Len(req[r].replaced) :
            LET k       == req[r].replaced[n]
                content == req[r].dom.nodes[req[r].textNodes[k + 1]].content
            IN HasSpan(content) => Restore(content) = Join(OriginalText(req[r], k))

\* C20: the translation-record store is append-only and keyed by source url:
\* no step removes or changes a stored record, each getTranslations(u) result
\* extends every earlier result for u as a prefix, and every record returned by
\* getTranslations(u) has url = u.
C20_AppendOnlyByUrl ==
    /\ [](\A u \in Urls :
             \A a \in 1..Len(getTranslations(storage, u)) :
                 getTranslations(storage, u)[a].url = u)
    /\ [][\A u \in Urls :
             IsPrefix(getTranslations(storage, u), getTranslations(storage', u))]_vars

C20_Witness ==
    /\ Len(getTranslations(storage, "https://example.com")) = 2
    /\ lastCall.method = "POST"
    /\ lastCall.before.translations["https://example.com"] # <<>>

\* the first n rules applied to word, the n-th to the output of the first n - 1
RECURSIVE FoldRules(_, _, _)
FoldRules(word, rules, n) ==
    IF n = 0 THEN word
    ELSE ReplaceAll(FoldRules(word, rules, n - 1), rules[n].from, rules[n].to)

\* the word a transformed form was before its ending and its capital letter
Substituted(c) ==
    LET ending == IF c.ending = 0 THEN <<>> ELSE langConfig(c.language).endings[c.ending]
        body   == SubSeq(c.result, 1, Len(c.result) - Len(ending))
    IN IF body = <<>> THEN body ELSE <<ToLowerChar(body[1])>> \o Tail(body)

\* C21: in the pattern-substitution strategy the rules of the chosen language
\* are applied to the lowercased word one after another in list order, each
\* replacing all occurrences in the output of the rule before it: the result is
\* the left-to-right fold of the rules over the word.
C21_RulesFoldedInListOrder ==
    call.fn = "transform" =>
        LET rules == langConfig(call.language).patterns
        IN Substituted(call) = FoldRules(ToLowerCase(call.word), rules, Len(rules))

\* 'ch' -> 'k' has run before 'ck' -> 'k': cch becomes ck, then k
C21_Witness ==
    /\ call.fn = "transform"
    /\ call.word = <<"c", "c", "h">>
    /\ call.language = "swedish"
    /\ call.ending = 0
    /\ call.result = <<"k">>

\* the pieces of several strings, a space between two of them
RECURSIVE JoinPieces(_)
JoinPieces(strings) ==
    IF strings = <<>> THEN <<>>
    ELSE IF Len(strings) = 1 THEN Head(strings)
    ELSE Head(strings) \o <<Sep(" ")>> \o JoinPieces(Tail(strings))

Originals(pairs) == {pairs[n].original : n \in 1..Len(pairs)}

\* C22: in the dictionary strategy a word is substituted only if its lowercase
\* form is a key of the mapping, at most one pair is emitted per unique word of
\* the segment, and every occurrence of an included word is replaced by the
\* same form: the output is, word by word, what the passes make of that word.
C22_DictionaryWordsSubstitutedAlike ==
    call.fn = "translateTextDictionary" =>
        LET text  == call.text
            pairs == call.result.wordPairs
            form(word) == ReplaceLoop(<<WordPiece(word)>>, pairs)
        IN /\ \A n \in 1..Len(pairs) :
                  /\ ToLowerCase(pairs[n].original) \in DOMAIN call.map
                  /\ pairs[n].translated = call.map[ToLowerCase(pairs[n].original)]
                  /\ \E i \in 1..Len(text) : text[i] = pairs[n].original
           /\ \A a, b \in 1..Len(pairs) :
                  pairs[a].original = pairs[b].original => a = b
           /\ call.result.markup = JoinPieces([i \in 1..Len(text) |-> form(text[i])])
           /\ \A i \in 1..Len(text) :
                  IF text[i] \in Originals(pairs)
                  THEN form(text[i])[1] = Sep("<")
                  ELSE form(text[i]) = <<WordPiece(text[i])>>

C22_Witness ==
    /\ call.fn = "translateTextDictionary"
    /\ call.text = <<the, Hi, the>>
    /\ call.result.wordPairs = <<[original |-> the, translated |-> den]>>
    /\ call.result.translatedText = <<Span(the, den), Plain(Hi), Span(the, den)>>

\* the spans opened in a string
SpansIn(pieces) ==
    Cardinality({j \in 1..(Len(pieces) - 1) :
                    /\ pieces[j] = Sep("<")
                    /\ pieces[j + 1] = WordPiece(<<"s", "p", "a", "n">>)})

\* the occurrences of included words in a text
IncludedOccurrences(text, pairs) ==
    Cardinality({i \in 1..Len(text) : text[i] \in Originals(pairs)})

\* the span of an included word as its own pass wrote it
SpanOf(word, pairs) ==
    LET n == CHOOSE k \in 1..Len(pairs) : pairs[k].original = word
    IN SpanPieces(word, pairs[n].translated)

\* C28: in the dictionary strategy the find/replace pass of one included word
\* never alters a span inserted by the pass of an earlier word (tag, class,
\* title attribute, translated text): the output has as many spans as the
\* input segment has occurrences of included words.
C28_LaterPassKeepsEarlierSpans ==
    call.fn = "translateTextDictionary" =>
        LET text  == call.text
            pairs == call.result.wordPairs
        IN /\ SpansIn(call.result.markup) = IncludedOccurrences(text, pairs)
           /\ call.result.markup =
                  JoinPieces([i \in 1..Len(text) |->
                                 IF text[i] \in Originals(pairs)
                                 THEN SpanOf(text[i], pairs)
                                 ELSE <<WordPiece(text[i])>>])

\* the positions of the spans in a node's content, left to right
SpanPositions(tokens) ==
    SelectSeq([i \in 1..Len(tokens) |-> i], LAMBDA i : tokens[i].span)

\* C23: in the pattern-substitution strategy every word of length 2 or less and
\* every word failing the inclusion draw appears unchanged in the output, and
\* the pairs returned are as many as the spans inserted into the segment, in
\* the same left-to-right order.
C23_PassThroughAndPairsMatchSpans ==
    call.fn = "translateTextPattern" =>
        LET text   == call.text
            tokens == call.result.translatedText
            pairs  == call.result.wordPairs
            at     == SpanPositions(tokens)
        IN /\ Len(tokens) = Len(text)
           /\ \A i \in 1..Len(text) :
                  (Len(text[i]) <= 2 \/ ~call.draws[i].include) =>
                      tokens[i] = Plain(text[i])
           /\ Len(pairs) = Len(at)
           /\ \A n \in 1..Len(at) :
                  /\ pairs[n].original = text[at[n]]
                  /\ tokens[at[n]].title = text[at[n]]
                  /\ pairs[n].translated = tokens[at[n]].word

\* a short word that passed the draw stays; two longer ones give two pairs
C23_Witness ==
    /\ call.fn = "translateTextPattern"
    /\ call.text = <<ship, Hi, The>>
    /\ \A i \in 1..3 : call.draws[i].include
    /\ call.result.translatedText[2] = Plain(Hi)
    /\ Len(call.result.wordPairs) = 2
    /\ call.result.wordPairs[2].original = The

\* C24: the index-drawing loop of count-uniform selection terminates for every
\* validated request: the target count never exceeds the number of candidates
\* (with no candidate the loop is left at once, nothing selected), and under a
\* fair random source the loop ends with the target number of distinct indices.
C24_DrawLoopTerminates ==
    /\ [](\A r \in Requests :
             /\ req[r].nodesToTranslate <= Candidates(r)
             /\ Cardinality(req[r].indices) <= req[r].nodesToTranslate
             /\ Candidates(r) = 0 => (req[r].pc # "draw" /\ req[r].indices = {})
             /\ SelectionOver(r) => Cardinality(req[r].indices) = req[r].nodesToTranslate)
    /\ \A r \in Requests : (req[r].pc = "draw") ~> (req[r].pc # "draw")

C24_Witness ==
    \E r \in Requests :
        /\ req[r].pc = "loop"
        /\ req[r].nodesToTranslate = 2
        /\ req[r].indices = {0, 1}
        /\ req[r].replaced = <<>>

\* the positions in a list of pairs of the first and of the last pair of a word
FirstPairOf(pairs, word) ==
    CHOOSE j \in 1..Len(pairs) :
        pairs[j].original = word /\ \A l \in 1..(j - 1) : pairs[l].original # word
LastPairOf(pairs, word) ==
    CHOOSE j \in 1..Len(pairs) :
        pairs[j].original = word /\ \A l \in (j + 1)..Len(pairs) : pairs[l].original # word

\* C25: when the same original word is paired with different transformed forms
\* in one request, the vocabulary entry of the word shows the form of the last
\* such pair in document order, and stands where the word's first pair stood
\* among the entries.
C25_LastFormAtFirstPosition ==
    call.fn = "uniqueWordPairs" =>
        LET pairs == call.pairs
            list  == call.result
        IN /\ Originals(list) = Originals(pairs)
           /\ \A a, b \in 1..Len(list) :
                  /\ list[a].original = list[b].original => a = b
                  /\ a < b => FirstPairOf(pairs, list[a].original)
                                  < FirstPairOf(pairs, list[b].original)
           /\ \A a \in 1..Len(list) :
                  list[a].translated =
                      pairs[LastPairOf(pairs, list[a].original)].translated

C25_Witness ==
    /\ call.fn = "uniqueWordPairs"
    /\ Len(call.pairs) = 3
    /\ call.pairs[1].original = ship /\ call.pairs[1].translated = transform(ship, "swedish", 0)
    /\ call.pairs[2].original = page
    /\ call.pairs[3].original = ship /\ call.pairs[3].translated = transform(ship, "swedish", 1)
    /\ Len(call.result) = 2
    /\ call.result[1] = call.pairs[3]
    /\ call.result[2] = call.pairs[2]

\* the ids of the records of one url, of all urls
IdsOf(st, u) == {getTranslations(st, u)[a].id : a \in 1..Len(getTranslations(st, u))}
AllIds(st) == UNION {IdsOf(st, u) : u \in Urls}

RECURSIVE RecordCount(_, _)
RecordCount(st, urls) ==
    IF urls = {} THEN 0
    ELSE LET u == CHOOSE x \in urls : TRUE
         IN Len(getTranslations(st, u)) + RecordCount(st, urls \ {u})

\* C26: across any sequence or interleaving of saveTranslation calls from any
\* number of requests and urls the ids assigned are pairwise distinct and
\* strictly increasing in call order, starting at 1 with no gaps.
C26_IdsDistinctIncreasingNoGaps ==
    /\ [](/\ AllIds(storage) = 1..(storage.currentId - 1)
          /\ RecordCount(storage, Urls) = storage.currentId - 1
          /\ \A u \in Urls :
                 \A a, b \in 1..Len(getTranslations(storage, u)) :
                     a < b => getTranslations(storage, u)[a].id
                                  < getTranslations(storage, u)[b].id)
    /\ [][storage'.translations # storage.translations =>
             /\ storage'.currentId = storage.currentId + 1
             /\ \E u \in Urls :
                   /\ Len(getTranslations(storage', u)) = Len(getTranslations(storage, u)) + 1
                   /\ getTranslations(storage', u)[Len(getTranslations(storage', u))].id
                          = storage.currentId
                   /\ \A v \in Urls \ {u} :
                          getTranslations(storage', v) = getTranslations(storage, v)]_vars

C26_Witness ==
    /\ IdsOf(storage, "https://example.com") = {1, 3}
    /\ IdsOf(storage, "https://www.w3.org/") = {2, 4}

\* C27: every translate request the Home client sends for a url starting with
\* http:// or https:// has a body that passes webpageSchema (url,
\* translationPercentage and language present and well-typed), so it is never
\* answered 400 for a missing field.
C27_ClientBodyPassesSchema ==
    (home.request # NoRequest /\ home.request.url \in Urls)
        => safeParse(ClientBody(home.request))

====
